---------------------------- MODULE Spec2Model ----------------------------
(***************************************************************************)
(* ExactInExitHandler (exact-in-exit.handler.ts): one handler instance,    *)
(* its private field lastExitRes, and the calls exit(params) and           *)
(* queryExit(params) made on it.  Every call is a JavaScript async         *)
(* function: it runs without interruption from one await to the next, so   *)
(* an action of this module is the code between two suspension points.     *)
(* The SDK, the signer and the transaction builder are external: what they *)
(* return is chosen nondeterministically.                                  *)
(***************************************************************************)
EXTENDS Integers, Sequences, FiniteSets, TLC

(***************************************************************************)
(* Bounds and program constants                                            *)
(***************************************************************************)
\* number of calls made on the instance in one behaviour
MaxCalls == 2

\* parseFixed(bptIn, 18) and formatFixed(evmPriceImpact, 18), `?? 18`
BptDecimals == 18

\* optional values (T | undefined): <<>> is undefined, <<v>> is v
None == << >>
Some(v) == << v >>
IsSome(o) == Len(o) = 1
Get(o) == o[1]

(***************************************************************************)
(* Addresses.  An address is the 20 bytes it names (id) and the letter     *)
(* case it is written in: "lc" all lower case, "cs" the EIP-55 checksum    *)
(* case.                                                                   *)
(***************************************************************************)
Forms == {"lc", "cs"}
Addr(i, f) == [id |-> i, form |-> f]

\* @ethersproject/address getAddress: the checksummed spelling
getAddress(a) == [a EXCEPT !.form = "cs"]
\* String.prototype.toLowerCase
toLowerCase(a) == [a EXCEPT !.form = "lc"]

\* @/lib/utils isSameAddress: equality of the checksummed spellings
isSameAddress(a, b) == getAddress(a) = getAddress(b)

NATIVE_ASSET_ADDRESS == Addr("ETH", "cs")
AddressZero == Addr("ZERO", "lc")

\* @/lib/utils formatAddressForSor: the native asset is the zero address
formatAddressForSor(a) ==
    IF isSameAddress(a, NATIVE_ASSET_ADDRESS) THEN AddressZero ELSE a

\* @/lib/utils removeAddress: the list without the entries equal to a
removeAddress(a, list) == SelectSeq(list, LAMBDA x : ~isSameAddress(x, a))

\* @/lib/utils indexOfAddress: JavaScript index (from 0) of the first entry
\* equal to a, -1 when there is none
indexOfAddress(list, a) ==
    IF \E i \in 1..Len(list) : isSameAddress(list[i], a)
    THEN (CHOOSE i \in 1..Len(list) :
            /\ isSameAddress(list[i], a)
            /\ \A j \in 1..(i - 1) : ~isSameAddress(list[j], a)) - 1
    ELSE -1

\* @/lib/utils selectByAddress: the value of the first key equal to a.
\* A token map is a sequence of <<key, value>> pairs in key order.
selectByAddress(map, a) ==
    IF \E i \in 1..Len(map) : isSameAddress(map[i][1], a)
    THEN Some(map[CHOOSE i \in 1..Len(map) :
                    /\ isSameAddress(map[i][1], a)
                    /\ \A j \in 1..(i - 1) : ~isSameAddress(map[j][1], a)][2])
    ELSE None

(***************************************************************************)
(* Fixed-point conversions (@ethersproject/bignumber).  A decimal string   *)
(* is its integer digits and its fraction digits; a BigNumber rendered by  *)
(* toString() is its digits without leading zeros.                         *)
(***************************************************************************)
RECURSIVE Zeros(_)
Zeros(n) == IF n <= 0 THEN << >> ELSE <<0>> \o Zeros(n - 1)

RECURSIVE StripLeadingZeros(_)
StripLeadingZeros(ds) ==
    IF Len(ds) > 1 /\ ds[1] = 0 THEN StripLeadingZeros(Tail(ds)) ELSE ds

\* parseFixed(value, decimals).toString()
parseFixed(value, decimals) ==
    StripLeadingZeros(value.int \o value.frac
                        \o Zeros(decimals - Len(value.frac)))

RECURSIVE Pow10(_)
Pow10(n) == IF n = 0 THEN 1 ELSE 10 * Pow10(n - 1)

\* formatFixed(value, decimals) of a raw amount below 10^9: the integer part
\* and the fraction, in units of 10^-decimals
formatFixed(value, decimals) ==
    IF decimals > 9
    THEN [int |-> 0, frac |-> value, decimals |-> decimals]
    ELSE [int |-> value \div Pow10(decimals),
          frac |-> value % Pow10(decimals),
          decimals |-> decimals]

RECURSIVE NumToString(_)
\* Number.prototype.toString of a natural number: its decimal digits
NumToString(n) ==
    IF n < 10 THEN <<n>> ELSE NumToString(n \div 10) \o <<n % 10>>


(***************************************************************************)
(* The pool the handler is constructed for (this.pool.value).              *)
(***************************************************************************)
pool ==
    [id |-> "pool-id",
     address |-> Addr("BPT", "lc"),
     tokens |-> << [address |-> Addr("BPT", "lc"), decimals |-> Some(18)],
                   [address |-> Addr("A", "lc"), decimals |-> Some(2)],
                   [address |-> Addr("B", "lc"), decimals |-> None] >>]

\* @/composables/usePoolHelpers flatTokenTree: every token of the pool
flatTokenTree(p) == p.tokens

(***************************************************************************)
(* ExitParams: the inputs of one call.                                     *)
(***************************************************************************)
\* tokenInfo with every token, keys and addresses written in case f
FullTokenInfo(f) ==
    << << Addr("A", f), [address |-> Addr("A", f), decimals |-> 2] >>,
       << Addr("B", f), [address |-> Addr("B", f), decimals |-> 0] >>,
       << Addr("ETH", f), [address |-> Addr("ETH", f), decimals |-> 18] >> >>

\* tokenInfo that lacks the requested tokens A and ETH
PartialTokenInfo ==
    << << Addr("B", "cs"), [address |-> Addr("B", "cs"), decimals |-> 0] >> >>

TokenInfos == {FullTokenInfo(f) : f \in Forms} \cup {PartialTokenInfo}

\* amountsOut: one requested token (single-token exit) or two (proportional)
Requests ==
    UNION {{ << [address |-> Addr("A", f)] >>,
             << [address |-> Addr("ETH", f)] >>,
             << [address |-> Addr("A", f)], [address |-> Addr("B", f)] >>,
             << [address |-> Addr("ETH", f)], [address |-> Addr("B", f)] >> }
           : f \in Forms}

\* bptIn "1.0" and "2.5"
BptIns == {[int |-> <<1>>, frac |-> <<0>>], [int |-> <<2>>, frac |-> <<5>>]}

SlippageBsps == {50}

ParamSet ==
    [amountsOut : Requests, tokenInfo : TokenInfos, bptIn : BptIns,
     slippageBsp : SlippageBsps]

\* the inputs of the calls that overlap in time: single-token exits of
\* "1.0" BPT and a proportional exit of "2.5" BPT to the pool's tokens
OverlapParamSet ==
    {p \in ParamSet :
        /\ p.tokenInfo = FullTokenInfo("cs")
        /\ \A i \in 1..Len(p.amountsOut) : p.amountsOut[i].address.form = "cs"
        /\ Len(p.amountsOut) > 1 => p.amountsOut[1].address = Addr("A", "cs")
        /\ IF Len(p.amountsOut) = 1
           THEN p.bptIn = [int |-> <<1>>, frac |-> <<0>>]
           ELSE p.bptIn = [int |-> <<2>>, frac |-> <<5>>]}

(***************************************************************************)
(* The external collaborators.                                             *)
(***************************************************************************)
\* signer.getAddress()
Exiter == Addr("EXITER", "cs")
\* the `to` of every built exit
Vault == Addr("VAULT", "cs")

\* exitPoolRequest.assets the SDK may answer: the pool's tokens, and, when
\* it was asked to unwrap the native asset, the pool's tokens with the
\* wrapped native token A replaced by the zero address
SdkAssets(shouldUnwrapNativeAsset) ==
    { << Addr("BPT", "lc"), Addr("A", "lc"), Addr("B", "lc") >> }
    \cup (IF shouldUnwrapNativeAsset
          THEN { << Addr("BPT", "lc"), AddressZero, Addr("B", "lc") >> }
          ELSE {})

\* expectedAmountsOut the SDK may answer, one raw amount per token out
SdkAmounts == { <<105, 1200>>, <<1200, 105>> }

\* raw (18 decimals) price impact the SDK may answer
SdkPriceImpacts == {15}

\* what buildExitExactBPTIn(exiter, evmBptIn, slippage, unwrap, single) may
\* return; the encoded call data is a function of the arguments
BuildResults(args) ==
    {[to |-> Vault,
      data |-> args,
      attributes |-> [exitPoolRequest |-> [assets |-> as]],
      expectedAmountsOut |-> ex] :
        as \in SdkAssets(args.shouldUnwrapNativeAsset), ex \in SdkAmounts}

(***************************************************************************)
(* State                                                                   *)
(***************************************************************************)
VARIABLES
    lastExitRes,     \* the private field: None or Some(build result)
    calls,           \* the calls in flight, by slot
    nCalls,          \* history: number of calls started
    querySucceeded   \* history: some queryExit has returned a QueryOutput

vars == << lastExitRes, calls, nCalls, querySucceeded >>

Slots == {"c1", "c2"}

IdleCall ==
    [kind |-> "none",
     pc |-> "idle",
     params |-> None,
     tokensOut |-> << >>,            \* local of queryExit, line 93
     expectedAmountsOut |-> << >>,   \* local of queryExit, line 97
     built |-> None,                 \* history: what this call's build returned
     calcArgs |-> None,              \* history: arguments of calcPriceImpact
     invoked |-> << >>,              \* history: external calls, in order
     failed |-> {},                  \* history: external calls that failed
     captured |-> 0,                 \* history: captureBalancerException calls
     pendingAtStart |-> FALSE,       \* history: lastExitRes was set at the start
     priorSuccess |-> FALSE,         \* history: querySucceeded at the start
     query |-> "pending",            \* how this call's queryExit ended
     output |-> None,                \* the QueryOutput returned
     outcome |-> "pending",          \* how the call ended
     sentTx |-> None]                \* argument of sendTransaction

Init ==
    /\ lastExitRes = None
    /\ calls = [c \in Slots |-> IdleCall]
    /\ nCalls = 0
    /\ querySucceeded = FALSE

(***************************************************************************)
(* queryExit, lines 54-134                                                 *)
(***************************************************************************)
\* line 62: selectByAddress(tokenInfo, amountsOut[0].address)
TokenOut(p) == selectByAddress(p.tokenInfo, p.amountsOut[1].address)

\* line 72
IsSingleTokenExit(p) == Len(p.amountsOut) = 1

\* line 74
TokenOutAddressForSor(p) == formatAddressForSor(Get(TokenOut(p)).address)

\* lines 83-89 and 212-219: the arguments of buildExitExactBPTIn
BuildArgs(p) ==
    [exiter |-> Exiter,
     evmBptIn |-> parseFixed(p.bptIn, BptDecimals),
     slippage |-> NumToString(p.slippageBsp),
     shouldUnwrapNativeAsset |->
        isSameAddress(Get(TokenOut(p)).address, NATIVE_ASSET_ADDRESS),
     singleTokenMaxOutAddress |->
        IF IsSingleTokenExit(p)
        THEN Some(toLowerCase(TokenOutAddressForSor(p)))
        ELSE None]

\* the check of line 60 left out
PoolMissingUnchecked(sdkPool) == FALSE

\* line 60: if (!sdkPool) throw
PoolMissing(sdkPool) == ~IsSome(sdkPool)

\* lines 211-229: the field after setLastExitRes, b the build's result
\* (None when buildExitExactBPTIn threw)
setLastExitRes(old, b) == IF IsSome(b) THEN b ELSE old

\* the check of line 106 left out
PriceImpactUnchecked(evmPriceImpact) == FALSE

\* line 106: if (!evmPriceImpact) throw
PriceImpactMissing(evmPriceImpact) == ~IsSome(evmPriceImpact)

\* the error of queryExit swallowed by exit
ExitProceedsAlways(q) == TRUE

\* line 44: await this.queryExit(params) lets exit go on only when the
\* query returned
ExitProceeds(q) == q = "ok"

\* lines 136-149
getSingleAmountOut(amountsOut, tokenOutIndex, tokenOut) ==
    tokenOut.address :>
        formatFixed(amountsOut[tokenOutIndex + 1], tokenOut.decimals)

\* lines 159-161: allPoolTokens.find(...)
FindPoolToken(allPoolTokens, a) ==
    IF \E i \in 1..Len(allPoolTokens) :
            isSameAddress(allPoolTokens[i].address, a)
    THEN Some(allPoolTokens[CHOOSE i \in 1..Len(allPoolTokens) :
            /\ isSameAddress(allPoolTokens[i].address, a)
            /\ \A j \in 1..(i - 1) :
                    ~isSameAddress(allPoolTokens[j].address, a)])
    ELSE None

RECURSIVE AmountsOutUpTo(_, _, _)
\* lines 158-171: the map after the first n rounds of the forEach
AmountsOutUpTo(expectedAmountsOut, tokensOut, n) ==
    IF n = 0 THEN << >>
    ELSE LET before == AmountsOutUpTo(expectedAmountsOut, tokensOut, n - 1)
             token == IF n <= Len(tokensOut)
                      THEN FindPoolToken(flatTokenTree(pool), tokensOut[n])
                      ELSE None
         IN  IF IsSome(token)
             THEN LET realAddress == getAddress(Get(token).address)
                      decimals == IF IsSome(Get(token).decimals)
                                  THEN Get(Get(token).decimals)
                                  ELSE BptDecimals
                  IN  (realAddress :>
                          formatFixed(expectedAmountsOut[n], decimals))
                      @@ before
             ELSE before

\* lines 151-174
getAmountsOut(expectedAmountsOut, tokensOut) ==
    AmountsOutUpTo(expectedAmountsOut, tokensOut, Len(expectedAmountsOut))

\* lines 93-97: what queryExit reads back from the field right after the build
ReadTokensOut(res) ==
    removeAddress(pool.address, res.attributes.exitPoolRequest.assets)

\* the amounts computed from the field, read again after the await
AmountsSourceField(c) ==
    [tokensOut |-> ReadTokensOut(Get(lastExitRes)),
     expectedAmountsOut |-> Get(lastExitRes).expectedAmountsOut]

\* lines 110-133: the amounts queryExit returns are computed from its locals
AmountsSource(c) ==
    [tokensOut |-> calls[c].tokensOut,
     expectedAmountsOut |-> calls[c].expectedAmountsOut]

\* the transaction taken from the result of the call's own build
ExitTransactionOwn(c) ==
    IF IsSome(calls[c].built)
    THEN [to |-> Get(calls[c].built).to, data |-> Get(calls[c].built).data]
    ELSE [to |-> Get(lastExitRes).to, data |-> Get(lastExitRes).data]

\* lines 49-51: the transaction exit submits is read from the field
ExitTransaction(c) ==
    [to |-> Get(lastExitRes).to, data |-> Get(lastExitRes).data]

\* the call after its queryExit ended with q ("ok" or the error thrown)
QueryEnds(cr, q) ==
    IF cr.kind = "exit" /\ ExitProceeds(q)
    THEN [cr EXCEPT !.query = q, !.pc = "resume"]
    ELSE [cr EXCEPT !.query = q, !.pc = "done", !.outcome = q]

(***************************************************************************)
(* Actions                                                                 *)
(***************************************************************************)
\* exit(params) or queryExit(params) is called: runs to line 56, where
\* signer.getAddress() is invoked and awaited
Call(c, k, p) ==
    /\ nCalls < MaxCalls
    /\ calls[c].pc = "idle"
    /\ calls' = [calls EXCEPT ![c] =
            [IdleCall EXCEPT !.kind = k, !.pc = "getAddress",
                             !.params = Some(p),
                             !.invoked = <<"getAddress">>,
                             !.pendingAtStart = IsSome(lastExitRes),
                             !.priorSuccess = querySucceeded]]
    /\ nCalls' = nCalls + 1
    /\ UNCHANGED << lastExitRes, querySucceeded >>

\* non-overlapping calls: a call starts when no other is in flight
CallAlone(c, k, p) ==
    /\ \A d \in Slots : calls[d].pc = "idle"
    /\ Call(c, k, p)

\* line 56: signer.getAddress() resolves; line 58: pools.find is invoked
GetAddressReturns(c) ==
    /\ calls[c].pc = "getAddress"
    /\ calls' = [calls EXCEPT ![c].pc = "find",
                              ![c].invoked = @ \o <<"find">>]
    /\ UNCHANGED << lastExitRes, nCalls, querySucceeded >>

\* line 56: signer.getAddress() rejects
GetAddressFails(c) ==
    /\ calls[c].pc = "getAddress"
    /\ calls' = [calls EXCEPT ![c] =
            QueryEnds([@ EXCEPT !.failed = @ \cup {"getAddress"}],
                      "SignerError")]
    /\ UNCHANGED << lastExitRes, nCalls, querySucceeded >>

\* lines 58-104 and 176-230: pools.find settles with found (a handle, None
\* for undefined, threw for a rejection) and queryExit runs on to the await
\* of calcPriceImpact; b is what buildExitExactBPTIn does (None: it throws)
FindSettles(c, found, threw) ==
    /\ calls[c].pc = "find"
    /\ LET cr == calls[c]
           p == Get(cr.params)
           sdkPool == IF threw THEN None ELSE found
           c1 == IF IsSome(sdkPool)
                 THEN cr
                 ELSE [cr EXCEPT !.failed = @ \cup {"find"},
                                 !.captured = @ + (IF threw THEN 1 ELSE 0)]
       IN  IF PoolMissing(sdkPool)
           THEN /\ calls' = [calls EXCEPT ![c] = QueryEnds(c1, "PoolNotFound")]
                /\ UNCHANGED lastExitRes
           ELSE IF ~IsSome(TokenOut(p))
           THEN /\ calls' = [calls EXCEPT ![c] = QueryEnds(c1, "TokenNotFound")]
                /\ UNCHANGED lastExitRes
           ELSE \E b \in {None} \cup
                        {Some(r) : r \in BuildResults(BuildArgs(p))} :
             /\ lastExitRes' = setLastExitRes(lastExitRes, b)
             /\ LET c2 == [c1 EXCEPT
                              !.invoked = @ \o <<"build">>,
                              !.built = b,
                              !.failed = IF IsSome(b) THEN @
                                         ELSE @ \cup {"build"},
                              !.captured = IF IsSome(b) THEN @ ELSE @ + 1]
                IN  IF ~IsSome(lastExitRes')
                    THEN calls' = [calls EXCEPT ![c] =
                                      QueryEnds(c2, "NoExitConstructed")]
                    ELSE calls' = [calls EXCEPT ![c] =
                          [c2 EXCEPT
                             !.tokensOut = ReadTokensOut(Get(lastExitRes')),
                             !.expectedAmountsOut =
                                  Get(lastExitRes').expectedAmountsOut,
                             !.calcArgs =
                                Some([amountsIn |->
                                        Get(lastExitRes').expectedAmountsOut,
                                      minBptOut |-> BuildArgs(p).evmBptIn,
                                      isJoin |-> FALSE]),
                             !.invoked = @ \o <<"calc">>,
                             !.pc = "calc"]]
    /\ UNCHANGED << nCalls, querySucceeded >>

\* lines 101-133 and 244-261: calcPriceImpact settles with impact (None: it
\* threw, and getEvmPriceImpact reports it and returns undefined)
CalcSettles(c, impact) ==
    /\ calls[c].pc = "calc"
    /\ LET cr == calls[c]
           p == Get(cr.params)
           \* lines 250-259: getEvmPriceImpact reports what calcPriceImpact
           \* threw
           c1 == IF IsSome(impact)
                 THEN cr
                 ELSE [cr EXCEPT !.failed = @ \cup {"calc"},
                                 !.captured = @ + 1]
           tokenOut == Get(TokenOut(p))
           src == AmountsSource(c)
           tokenOutIndex ==
               indexOfAddress(src.tokensOut, TokenOutAddressForSor(p))
       IN  IF PriceImpactMissing(impact)
           THEN /\ calls' = [calls EXCEPT ![c] =
                     QueryEnds(c1, "PriceImpactUnavailable")]
                /\ UNCHANGED querySucceeded
           ELSE IF \/ ~IsSome(impact)
                   \/ /\ IsSingleTokenExit(p)
                      /\ (tokenOutIndex < 0
                            \/ tokenOutIndex >= Len(src.expectedAmountsOut))
           \* formatFixed of undefined (the price impact, line 108, or
           \* amountsOut[tokenOutIndex], line 142) throws
           THEN /\ calls' = [calls EXCEPT ![c] = QueryEnds(c1, "InvalidAmount")]
                /\ UNCHANGED querySucceeded
           ELSE /\ calls' = [calls EXCEPT ![c] =
                     QueryEnds([c1 EXCEPT !.output = Some(
                        [amountsOut |->
                            IF IsSingleTokenExit(p)
                            THEN getSingleAmountOut(src.expectedAmountsOut,
                                                    tokenOutIndex, tokenOut)
                            ELSE getAmountsOut(src.expectedAmountsOut,
                                               src.tokensOut),
                         priceImpact |-> formatFixed(Get(impact), BptDecimals),
                         txReady |-> TRUE])], "ok")]
                /\ querySucceeded' = TRUE
    /\ UNCHANGED << lastExitRes, nCalls >>

\* lines 46-51: exit resumes after its queryExit and submits the transaction
ExitResumes(c) ==
    /\ calls[c].pc = "resume"
    /\ IF ~IsSome(lastExitRes)
       THEN calls' = [calls EXCEPT ![c].pc = "done",
                                   ![c].outcome = "NoExitConstructed"]
       ELSE calls' = [calls EXCEPT ![c].pc = "send",
                                   ![c].sentTx = Some(ExitTransaction(c)),
                                   ![c].invoked = @ \o <<"send">>]
    /\ UNCHANGED << lastExitRes, nCalls, querySucceeded >>

\* line 51: sendTransaction resolves with the TransactionResponse
SendReturns(c) ==
    /\ calls[c].pc = "send"
    /\ calls' = [calls EXCEPT ![c].pc = "done", ![c].outcome = "ok"]
    /\ UNCHANGED << lastExitRes, nCalls, querySucceeded >>

\* line 51: sendTransaction rejects
SendFails(c) ==
    /\ calls[c].pc = "send"
    /\ calls' = [calls EXCEPT ![c].pc = "done",
                              ![c].outcome = "TransactionError",
                              ![c].failed = @ \cup {"send"}]
    /\ UNCHANGED << lastExitRes, nCalls, querySucceeded >>

\* the caller takes the settled promise
Settle(c) ==
    /\ calls[c].pc = "done"
    /\ calls' = [calls EXCEPT ![c] = IdleCall]
    /\ UNCHANGED << lastExitRes, nCalls, querySucceeded >>

Kinds == {"exit", "query"}
SdkPoolHandle == Some("PoolWithMethods")

Step(c) ==
    \/ GetAddressReturns(c)
    \/ GetAddressFails(c)
    \/ \E found \in {None, SdkPoolHandle}, threw \in BOOLEAN :
            FindSettles(c, found, threw)
    \/ \E impact \in {None} \cup {Some(i) : i \in SdkPriceImpacts} :
            CalcSettles(c, impact)
    \/ ExitResumes(c)
    \/ SendReturns(c)
    \/ SendFails(c)
    \/ Settle(c)

\* calls that never overlap
Next ==
    \/ \E c \in Slots, k \in Kinds, p \in ParamSet : CallAlone(c, k, p)
    \/ \E c \in Slots : Step(c)

Spec == Init /\ [][Next]_vars

\* calls that may overlap
NextOverlap ==
    \/ \E c \in Slots, k \in Kinds, p \in OverlapParamSet : Call(c, k, p)
    \/ \E c \in Slots : Step(c)

SpecOverlap == Init /\ [][NextOverlap]_vars

(***************************************************************************)
(* Properties                                                              *)
(***************************************************************************)
\* the SDK and wallet calls a call made, without signer.getAddress
SdkCalls(c) == SelectSeq(calls[c].invoked, LAMBDA x : x # "getAddress")

IsPrefix(s, t) == Len(s) <= Len(t) /\ \A i \in 1..Len(s) : s[i] = t[i]

\* C1: when buildExitExactBPTIn fails during a queryExit, the error is
\* reported, lastExitRes is unset when the call ends, the queryExit fails
\* with the construction error and an exit running it sends nothing.
C1_BuildFailureUnsetsPending ==
    \A c \in Slots :
        (calls[c].pc = "done" /\ "build" \in calls[c].failed)
        => /\ calls[c].captured >= 1
           /\ ~IsSome(lastExitRes)
           /\ calls[c].query = "NoExitConstructed"
           /\ ~IsSome(calls[c].sentTx)

\* C2: every transaction exit submits carries the to and data returned by
\* the build that this same exit call made.
C2_SubmitsOwnBuild ==
    \A c \in Slots :
        IsSome(calls[c].sentTx)
        => /\ IsSome(calls[c].built)
           /\ Get(calls[c].sentTx) = [to |-> Get(calls[c].built).to,
                                      data |-> Get(calls[c].built).data]

\* C3 as stated, in the case where the queryExit that exit runs returns: an
\* exit called when no queryExit has succeeded before on the instance fails
\* with NoExitConstructed and sends no transaction.
C3_ExitWithoutPriorQueryFails ==
    \A c \in Slots :
        (/\ calls[c].kind = "exit"
         /\ ~calls[c].priorSuccess
         /\ calls[c].query = "ok")
        => /\ ~IsSome(calls[c].sentTx)
           /\ calls[c].pc = "done" => calls[c].outcome = "NoExitConstructed"

\* C3 as amended: an exit called when no queryExit has succeeded before,
\* and whose own queryExit fails, fails with that queryExit's error and
\* sends no transaction; the error is NoExitConstructed when the build
\* failed and the instance held no pending result.
C3_ExitFailsWhenItsQueryFails ==
    \A c \in Slots :
        (/\ calls[c].kind = "exit"
         /\ ~calls[c].priorSuccess
         /\ calls[c].query \notin {"pending", "ok"})
        => /\ calls[c].pc = "done"
           /\ calls[c].outcome = calls[c].query
           /\ ~IsSome(calls[c].sentTx)
           /\ ("build" \in calls[c].failed /\ ~calls[c].pendingAtStart)
                => calls[c].outcome = "NoExitConstructed"

C3_Witness ==
    \E c \in Slots :
        /\ calls[c].kind = "exit"
        /\ ~calls[c].priorSuccess
        /\ "build" \in calls[c].failed
        /\ calls[c].pc = "done"
        /\ calls[c].outcome = "NoExitConstructed"

\* C4: when pools.find returns undefined or throws, queryExit fails with
\* PoolNotFound and the call invokes neither buildExitExactBPTIn nor
\* calcPriceImpact nor sendTransaction.
C4_PoolNotFound ==
    \A c \in Slots :
        "find" \in calls[c].failed
        => /\ calls[c].query = "PoolNotFound"
           /\ calls[c].pc = "done"
           /\ calls[c].outcome = "PoolNotFound"
           /\ SdkCalls(c) = <<"find">>
           /\ ~IsSome(calls[c].output)
           /\ ~IsSome(calls[c].sentTx)

C4_Witness ==
    \E c \in Slots :
        /\ calls[c].kind = "exit"
        /\ "find" \in calls[c].failed
        /\ calls[c].captured = 1
        /\ calls[c].pendingAtStart
        /\ calls[c].pc = "done"

\* C5: when calcPriceImpact fails, queryExit throws PriceImpactUnavailable,
\* returns no QueryOutput, and an exit running it sends no transaction.
C5_PriceImpactFailureIsFatal ==
    \A c \in Slots :
        "calc" \in calls[c].failed
        => /\ calls[c].query = "PriceImpactUnavailable"
           /\ calls[c].pc = "done"
           /\ calls[c].outcome = "PriceImpactUnavailable"
           /\ ~IsSome(calls[c].output)
           /\ ~IsSome(calls[c].sentTx)
           /\ "send" \notin {calls[c].invoked[i] :
                                i \in 1..Len(calls[c].invoked)}

C5_Witness ==
    \E c \in Slots :
        /\ calls[c].kind = "exit"
        /\ "calc" \in calls[c].failed
        /\ IsSome(calls[c].built)
        /\ calls[c].pc = "done"

\* C6: a single-output queryExit that returns has exactly one entry in its
\* amounts map, keyed by the checksummed address of the requested token.
C6_SingleExitKeyedByChecksum ==
    \A c \in Slots :
        (IsSome(calls[c].output) /\ IsSingleTokenExit(Get(calls[c].params)))
        => DOMAIN Get(calls[c].output).amountsOut =
              {getAddress(Get(calls[c].params).amountsOut[1].address)}

\* C7: a multi-output queryExit that returns has as the keys of its amounts
\* map the pool's token addresses other than the BPT, which are the assets
\* of the built exit request without the pool address.
C7_MultiExitKeysArePoolTokens ==
    \A c \in Slots :
        (IsSome(calls[c].output) /\ ~IsSingleTokenExit(Get(calls[c].params)))
        => /\ DOMAIN Get(calls[c].output).amountsOut =
                {getAddress(calls[c].tokensOut[i]) :
                    i \in 1..Len(calls[c].tokensOut)}
           /\ DOMAIN Get(calls[c].output).amountsOut =
                {getAddress(pool.tokens[i].address) :
                    i \in {j \in 1..Len(pool.tokens) :
                        ~isSameAddress(pool.tokens[j].address, pool.address)}}

\* C8: with calls overlapping, exit submits the to and data that the field
\* holds at the moment exit resumes, whichever call's build wrote them; so
\* a build of an overlapping queryExit that lands after exit's own build is
\* what exit submits.
C8_ExitSubmitsFieldAtResume ==
    [][\A c \in Slots :
         (calls[c].pc = "resume" /\ calls'[c].pc = "send")
         => calls'[c].sentTx = Some([to |-> Get(lastExitRes).to,
                                     data |-> Get(lastExitRes).data])]_vars

C8_Witness ==
    \E a \in Slots, b \in Slots :
        /\ a # b
        /\ calls[a].kind = "exit"
        /\ calls[b].kind = "query"
        /\ IsSome(calls[a].sentTx)
        /\ IsSome(calls[a].built)
        /\ IsSome(calls[b].built)
        /\ Get(calls[a].sentTx).data = Get(calls[b].built).data
        /\ Get(calls[a].sentTx).data # Get(calls[a].built).data

\* C9: an exit call invokes the pool lookup, buildExitExactBPTIn and
\* calcPriceImpact at most once each and in that order, sendTransaction at
\* most once and only after all three succeeded in this call, and a
\* successful exit invokes each of the four exactly once.
C9_RecomputesNeverRetries ==
    \A c \in Slots :
        calls[c].kind = "exit"
        => /\ IsPrefix(SdkCalls(c), <<"find", "build", "calc", "send">>)
           /\ IsSome(calls[c].sentTx)
                => calls[c].failed \cap {"find", "build", "calc"} = {}
           /\ calls[c].outcome = "ok"
                => SdkCalls(c) = <<"find", "build", "calc", "send">>

\* C10: with calls overlapping, a queryExit whose own build succeeded passes
\* to calcPriceImpact the expectedAmountsOut of its own build and returns
\* the amounts computed from the expectedAmountsOut and the assets of its
\* own build.
C10_QueryReturnsOwnBuild ==
    \A c \in Slots :
        (IsSome(calls[c].output) /\ IsSome(calls[c].built))
        => LET p == Get(calls[c].params)
               own == Get(calls[c].built)
               ownTokensOut ==
                   removeAddress(pool.address,
                                 own.attributes.exitPoolRequest.assets)
           IN  /\ Get(calls[c].calcArgs).amountsIn = own.expectedAmountsOut
               /\ Get(calls[c].output).amountsOut =
                    IF IsSingleTokenExit(p)
                    THEN getSingleAmountOut(
                            own.expectedAmountsOut,
                            indexOfAddress(ownTokensOut,
                                           TokenOutAddressForSor(p)),
                            Get(TokenOut(p)))
                    ELSE getAmountsOut(own.expectedAmountsOut, ownTokensOut)

C10_Witness ==
    \E c \in Slots :
        /\ IsSome(calls[c].output)
        /\ IsSome(calls[c].built)
        /\ IsSome(lastExitRes)
        /\ Get(lastExitRes).expectedAmountsOut
              # Get(calls[c].built).expectedAmountsOut
        /\ Get(lastExitRes).data # Get(calls[c].built).data

=============================================================================
